---- MODULE Spec2Model ----
(***************************************************************************)
(* ikigai/components/model.py: ModelBuilder, Model, ModelBrowser,          *)
(* ModelVersion and ModelDirectoryBuilder, as state machines over the      *)
(* remote calls they issue through Client.component and Client.search.    *)
(*                                                                         *)
(* Every public method is one atomic action (the library is synchronous   *)
(* and single threaded).  A remote call either fails, in which case the   *)
(* method stops there and the failure propagates, or succeeds.            *)
(***************************************************************************)
EXTENDS Integers, Sequences, FiniteSets, TLC

VARIABLES
    mb,        \* ModelBuilder: _app_id, _name, _directory, _model_type, _description
    lastArg,   \* history: the latest argument of each ModelBuilder setter
    mdb,       \* ModelDirectoryBuilder: _app_id, _name, _parent
    model,     \* the Model entity the Model methods are called on
    ctor,      \* history: app_id and model_id the Model was constructed with
    browser,   \* ModelBrowser: __app_id
    remote,    \* remote store of models: model_id -> [app_id, name]
    remoteDirs,\* remote store of model directories: directory_id -> [app_id, name]
    calls,     \* the remote calls issued by the latest operation, in order
    fetched,   \* what the remote calls of the latest operation returned, in order
    last,      \* the latest operation: [op, arg, ok, repeat]
    ret        \* what the latest operation returned or raised: [kind, value]

vars == <<mb, lastArg, mdb, model, ctor, browser, remote, remoteDirs,
          calls, fetched, last, ret>>

----------------------------------------------------------------------------
(* Bounds and input sets *)

MaxVersions == 2    \* longest listing get_model_versions returns
MaxResults == 2     \* longest listing search_models_for_project returns

None == "None"      \* Python's None
NoCall == "NoCall"  \* history value: the setter was never called

AppIds == {"a1", "a2"}
ModelIds == {"m1", "m2"}
DirectoryIds == {"g1", "g2"}
VersionIds == {"v1", "v2"}
Names == {"", "X", "Y"}
Descriptions == {"", "D"}
Directories == {"d1"}
SubModelSpecs == {"Linear.Lasso", "Linear.Base"}
Queries == {"", "q"}

\* How a remote record names its owning app: spec section 6 has both
\* spellings; "absent" is a record that carries neither.
KeyForms == {"app_id", "project_id", "absent"}

----------------------------------------------------------------------------
(* Mappings (Python dicts) *)

EmptyDict == <<>>

\* {**base, **data}: the keys of data win.
Merge(base, data) ==
    [k \in (DOMAIN base) \cup (DOMAIN data) |->
        IF k \in DOMAIN data THEN data[k] ELSE base[k]]

\* The part of a remote record that names the owning app.
AppKey(form, app_id) ==
    IF form = "absent" THEN EmptyDict ELSE [k \in {form} |-> app_id]

----------------------------------------------------------------------------
(* pydantic validation *)

\* Field(validation_alias=AliasChoices("app_id", "project_id")): the first
\* alias present in the data supplies app_id.
HasAppId(data) == "app_id" \in DOMAIN data \/ "project_id" \in DOMAIN data

AliasAppId(data) ==
    IF "app_id" \in DOMAIN data THEN data["app_id"] ELSE data["project_id"]

ModelFields == {"model_id", "name", "model_type", "sub_model_type",
                "description", "created_at", "modified_at"}

\* Model.from_dict: <<the Model>>, or <<>> when validation fails.
Model_from_dict(data) ==
    IF HasAppId(data) /\ ModelFields \subseteq DOMAIN data
    THEN << [app_id |-> AliasAppId(data),
             model_id |-> data["model_id"],
             name |-> data["name"],
             model_type |-> data["model_type"],
             sub_model_type |-> data["sub_model_type"],
             description |-> data["description"],
             created_at |-> data["created_at"],
             modified_at |-> data["modified_at"]] >>
    ELSE << >>

ModelDirectoryFields == {"directory_id", "name"}

\* ModelDirectory.from_dict: <<the ModelDirectory>>, or <<>>.
ModelDirectory_from_dict(data) ==
    IF HasAppId(data) /\ ModelDirectoryFields \subseteq DOMAIN data
    THEN << [app_id |-> AliasAppId(data),
             directory_id |-> data["directory_id"],
             name |-> data["name"]] >>
    ELSE << >>

ModelVersionFields == {"model_id", "version_id", "version", "hyperparameters",
                       "metrics", "created_at", "modified_at"}

\* The mapping ModelVersion.from_dict hands to model_validate.
VersionInput(app_id, data) == Merge([app_id |-> app_id], data)

\* ModelVersion.from_dict: <<the ModelVersion>>, or <<>>.
ModelVersion_from_dict(app_id, data) ==
    LET input == VersionInput(app_id, data) IN
    IF HasAppId(input) /\ ModelVersionFields \subseteq DOMAIN input
    THEN << [app_id |-> AliasAppId(input),
             model_id |-> input["model_id"],
             version_id |-> input["version_id"],
             version |-> input["version"],
             hyperparameters |-> input["hyperparameters"],
             metrics |-> input["metrics"],
             created_at |-> input["created_at"],
             modified_at |-> input["modified_at"]] >>
    ELSE << >>

----------------------------------------------------------------------------
(* The remote platform behind Client.component *)

TypeOf(spec) == "Linear"
SubTypeOf(spec) == IF spec = "Linear.Lasso" THEN "Lasso" ELSE "Base"

\* create_model: the store after the model was created under model_id.
Remote_create_model(r, model_id, req) ==
    [k \in (DOMAIN r) \cup {model_id} |->
        IF k = model_id THEN [app_id |-> req.app_id, name |-> req.name]
        ELSE r[k]]

\* get_model: the record of a stored model.  The store keeps the name; the
\* other attributes are whatever the platform reports (rest).
Remote_get_model(r, model_id, form, rest) ==
    Merge(AppKey(form, r[model_id].app_id),
          [model_id |-> model_id,
           name |-> r[model_id].name,
           model_type |-> TypeOf(rest.spec),
           sub_model_type |-> SubTypeOf(rest.spec),
           description |-> rest.description,
           created_at |-> 0,
           modified_at |-> 0])

ModelRest == [spec : SubModelSpecs, description : Descriptions]

\* edit_model: the store after a successful edit of one attribute.
Remote_edit_model(r, model_id, field, value) ==
    IF field = "name" THEN [r EXCEPT ![model_id].name = value] ELSE r

\* delete_model: the store without the model.
Remote_delete_model(r, model_id) ==
    [k \in (DOMAIN r) \ {model_id} |-> r[k]]

\* create_model_directory / get_model_directory.
Remote_create_model_directory(r, directory_id, req) ==
    [k \in (DOMAIN r) \cup {directory_id} |->
        IF k = directory_id THEN [app_id |-> req.app_id, name |-> req.name]
        ELSE r[k]]

Remote_get_model_directory(r, directory_id, form) ==
    Merge(AppKey(form, r[directory_id].app_id),
          [directory_id |-> directory_id, name |-> r[directory_id].name])

----------------------------------------------------------------------------
(* Results of an operation *)

Returned(kind, value) == [kind |-> kind, value |-> value]
Raised(kind) == [kind |-> kind, value |-> None]
Op(op, arg, ok) == [op |-> op, arg |-> arg, ok |-> ok, repeat |-> FALSE]

NoModel == [app_id |-> None, model_id |-> None]

----------------------------------------------------------------------------
(* ModelBuilder *)

ModelBuilder_init(app_id) ==
    [app_id |-> app_id, name |-> "", directory |-> None,
     model_type |-> None, description |-> ""]

ModelBuilder_new(b, name) == [b EXCEPT !.name = name]
ModelBuilder_directory(b, directory) == [b EXCEPT !.directory = directory]
ModelBuilder_model_type(b, model_type) == [b EXCEPT !.model_type = model_type]
\* Variant: description() writes the name field.
ModelBuilder_description_name(b, description) == [b EXCEPT !.name = description]
ModelBuilder_description(b, description) == [b EXCEPT !.description = description]

\* Variant: the test looks at the name instead of the model type.
TypeMissing_name(b) == b.name = ""

\* The test that opens build().
TypeMissing(b) == b.model_type = None

\* The create_model request of build().
CreateModelRequest(b) ==
    [op |-> "create_model", app_id |-> b.app_id, name |-> b.name,
     directory |-> b.directory, model_type |-> b.model_type,
     description |-> b.description]

\* Variant: the fetch is keyed by the name instead of the returned id.
GetModelRequest_byName(b, model_id) ==
    [op |-> "get_model", app_id |-> b.app_id, model_id |-> b.name]

\* The get_model request of build().
GetModelRequest(b, model_id) ==
    [op |-> "get_model", app_id |-> b.app_id, model_id |-> model_id]

\* History of the setter calls: the latest argument of each setter, and
\* whether some setter was called again with another argument.
Called(setter, arg) ==
    [lastArg EXCEPT ![setter] = arg,
                    !.repeated = @ \/ lastArg[setter] \notin {NoCall, arg}]

BuilderFrame == UNCHANGED <<mdb, model, ctor, browser, remoteDirs>>

Setter(op, arg) ==
    /\ calls' = << >>
    /\ fetched' = << >>
    /\ last' = Op(op, arg, TRUE)
    /\ ret' = Returned("self", None)
    /\ UNCHANGED remote
    /\ BuilderFrame

New ==
    \E name \in Names :
        /\ mb' = ModelBuilder_new(mb, name)
        /\ lastArg' = Called("new", name)
        /\ Setter("new", name)

Directory ==
    \E directory \in Directories :
        /\ mb' = ModelBuilder_directory(mb, directory)
        /\ lastArg' = Called("directory", directory)
        /\ Setter("directory", directory)

ModelType ==
    \E model_type \in SubModelSpecs :
        /\ mb' = ModelBuilder_model_type(mb, model_type)
        /\ lastArg' = Called("model_type", model_type)
        /\ Setter("model_type", model_type)

Description ==
    \E description \in Descriptions :
        /\ mb' = ModelBuilder_description(mb, description)
        /\ lastArg' = Called("description", description)
        /\ Setter("description", description)

\* build(): the validation failure.
BuildInvalid ==
    /\ TypeMissing(mb)
    /\ calls' = << >>
    /\ fetched' = << >>
    /\ ret' = Raised("ValueError")
    /\ UNCHANGED remote

\* build(): create_model fails.
BuildCreateFails ==
    /\ ~TypeMissing(mb)
    /\ calls' = << CreateModelRequest(mb) >>
    /\ fetched' = << >>
    /\ ret' = Raised("RemoteError")
    /\ UNCHANGED remote

\* Variant: a failed fetch is compensated by deleting the created model.
BuildFetchFails_rollback(model_id) ==
    /\ ~TypeMissing(mb)
    /\ calls' = << CreateModelRequest(mb), GetModelRequest(mb, model_id),
                   [op |-> "delete_model", app_id |-> mb.app_id,
                    model_id |-> model_id] >>
    /\ fetched' = << model_id >>
    /\ ret' = Raised("RemoteError")
    /\ UNCHANGED remote

\* build(): create_model returns model_id, get_model fails.
BuildFetchFails(model_id) ==
    /\ ~TypeMissing(mb)
    /\ calls' = << CreateModelRequest(mb), GetModelRequest(mb, model_id) >>
    /\ fetched' = << model_id >>
    /\ ret' = Raised("RemoteError")
    /\ remote' = Remote_create_model(remote, model_id, CreateModelRequest(mb))

\* build(): both calls succeed and the record is validated.
BuildFetched(model_id, form, rest) ==
    LET created == Remote_create_model(remote, model_id, CreateModelRequest(mb))
        request == GetModelRequest(mb, model_id)
        data == Remote_get_model(created, request.model_id, form, rest)
        made == Model_from_dict(data)
    IN  /\ ~TypeMissing(mb)
        /\ request.model_id \in DOMAIN created
        /\ calls' = << CreateModelRequest(mb), request >>
        /\ fetched' = << model_id, data >>
        /\ ret' = IF made = << >> THEN Raised("ValidationError")
                  ELSE Returned("Model", made[1])
        /\ remote' = created

Build ==
    /\ \/ BuildInvalid
       \/ BuildCreateFails
       \/ \E model_id \in ModelIds \ DOMAIN remote :
            \/ BuildFetchFails(model_id)
            \/ \E form \in KeyForms, rest \in ModelRest :
                 BuildFetched(model_id, form, rest)
    /\ last' = Op("build", None, ret'.kind = "Model")
    /\ UNCHANGED <<mb, lastArg>>
    /\ BuilderFrame

Init ==
    /\ \E app_id \in AppIds : mb = ModelBuilder_init(app_id)
    /\ lastArg = [init |-> mb.app_id, new |-> NoCall, directory |-> NoCall,
                  model_type |-> NoCall, description |-> NoCall,
                  repeated |-> FALSE]
    /\ mdb = [app_id |-> None, name |-> "", parent |-> None]
    /\ model = NoModel
    /\ ctor = NoModel
    /\ browser = [app_id |-> None]
    /\ remote = EmptyDict
    /\ remoteDirs = EmptyDict
    /\ calls = << >>
    /\ fetched = << >>
    /\ last = Op("init", None, TRUE)
    /\ ret = Returned("self", None)

Next == New \/ Directory \/ ModelType \/ Description \/ Build

Spec == Init /\ [][Next]_vars

----------------------------------------------------------------------------
(* ModelDirectoryBuilder *)

ModelDirectoryBuilder_init(app_id) ==
    [app_id |-> app_id, name |-> "", parent |-> None]

ModelDirectoryBuilder_new(b, name) == [b EXCEPT !.name = name]
ModelDirectoryBuilder_parent(b, parent) == [b EXCEPT !.parent = parent]

CreateDirectoryRequest(b) ==
    [op |-> "create_model_directory", app_id |-> b.app_id, name |-> b.name,
     parent |-> b.parent]

GetDirectoryRequest(b, directory_id) ==
    [op |-> "get_model_directory", app_id |-> b.app_id,
     directory_id |-> directory_id]

DirFrame == UNCHANGED <<mb, lastArg, model, ctor, browser, remote>>

DirSetter(op, arg) ==
    /\ calls' = << >>
    /\ fetched' = << >>
    /\ last' = Op(op, arg, TRUE)
    /\ ret' = Returned("self", None)
    /\ UNCHANGED remoteDirs
    /\ DirFrame

DirNew ==
    \E name \in Names :
        /\ mdb' = ModelDirectoryBuilder_new(mdb, name)
        /\ DirSetter("dir_new", name)

DirParent ==
    \E parent \in Directories :
        /\ mdb' = ModelDirectoryBuilder_parent(mdb, parent)
        /\ DirSetter("dir_parent", parent)

\* build(): create_model_directory fails.
DirBuildCreateFails ==
    /\ calls' = << CreateDirectoryRequest(mdb) >>
    /\ fetched' = << >>
    /\ ret' = Raised("RemoteError")
    /\ UNCHANGED remoteDirs

\* build(): create_model_directory returns directory_id, the fetch fails.
DirBuildFetchFails(directory_id) ==
    /\ calls' = << CreateDirectoryRequest(mdb),
                   GetDirectoryRequest(mdb, directory_id) >>
    /\ fetched' = << directory_id >>
    /\ ret' = Raised("RemoteError")
    /\ remoteDirs' = Remote_create_model_directory(
                        remoteDirs, directory_id, CreateDirectoryRequest(mdb))

\* build(): both calls succeed and the record is validated.
DirBuildFetched(directory_id, form) ==
    LET created == Remote_create_model_directory(
                        remoteDirs, directory_id, CreateDirectoryRequest(mdb))
        request == GetDirectoryRequest(mdb, directory_id)
        data == Remote_get_model_directory(created, request.directory_id, form)
        made == ModelDirectory_from_dict(data)
    IN  /\ request.directory_id \in DOMAIN created
        /\ calls' = << CreateDirectoryRequest(mdb), request >>
        /\ fetched' = << directory_id, data >>
        /\ ret' = IF made = << >> THEN Raised("ValidationError")
                  ELSE Returned("ModelDirectory", made[1])
        /\ remoteDirs' = created

DirBuild ==
    /\ \/ DirBuildCreateFails
       \/ \E directory_id \in DirectoryIds \ DOMAIN remoteDirs :
            \/ DirBuildFetchFails(directory_id)
            \/ \E form \in KeyForms : DirBuildFetched(directory_id, form)
    /\ last' = Op("dir_build", None, ret'.kind = "ModelDirectory")
    /\ UNCHANGED mdb
    /\ DirFrame

\* Configurations the ModelBuilder setters new() and model_type() reach.
BuilderConfigs(app_id) ==
    { [app_id |-> app_id, name |-> n, directory |-> None, model_type |-> t,
       description |-> ""] :
        n \in Names, t \in SubModelSpecs \cup {None} }

\* Both builders of one app: the ModelBuilder in any configuration, the
\* ModelDirectoryBuilder as constructed.
InitBuild ==
    /\ \E app_id \in AppIds :
         /\ mb \in BuilderConfigs(app_id)
         /\ mdb = ModelDirectoryBuilder_init(app_id)
    /\ lastArg = [init |-> mb.app_id, new |-> mb.name,
                  directory |-> NoCall,
                  model_type |-> IF mb.model_type = None THEN NoCall
                                 ELSE mb.model_type,
                  description |-> NoCall,
                  repeated |-> FALSE]
    /\ model = NoModel
    /\ ctor = NoModel
    /\ browser = [app_id |-> None]
    /\ remote = EmptyDict
    /\ remoteDirs = EmptyDict
    /\ calls = << >>
    /\ fetched = << >>
    /\ last = Op("init", None, TRUE)
    /\ ret = Returned("self", None)

NextBuild == Build \/ DirNew \/ DirParent \/ DirBuild

SpecBuild == InitBuild /\ [][NextBuild]_vars

----------------------------------------------------------------------------
(* Model *)

\* Variant: rename() also counts the change in modified_at.
Model_rename_touch(m, name) == [m EXCEPT !.name = name, !.modified_at = @ + 1]

\* The local mirror written by rename() and update_description().
Model_rename(m, name) == [m EXCEPT !.name = name]
Model_update_description(m, description) == [m EXCEPT !.description = description]

DeleteRequest(m) ==
    [op |-> "delete_model", app_id |-> m.app_id, model_id |-> m.model_id]

\* Variant: the edit is keyed by the name instead of the model_id.
EditRequest_byName(m, field, value) ==
    Merge([op |-> "edit_model", app_id |-> m.app_id, model_id |-> m.name],
          [k \in {field} |-> value])

EditRequest(m, field, value) ==
    Merge([op |-> "edit_model", app_id |-> m.app_id, model_id |-> m.model_id],
          [k \in {field} |-> value])

VersionsRequest(m) ==
    [op |-> "get_model_versions", app_id |-> m.app_id, model_id |-> m.model_id]

DescribeRequest(m) ==
    [op |-> "get_model", app_id |-> m.app_id, model_id |-> m.model_id]

\* Variant: versions are filed under their name.
VersionKey_name(version) == version.version

\* The key under which versions() files a ModelVersion.
VersionKey(version) == version.version_id

\* The dict comprehension of versions(): <<the dict>>, or <<>> when a record
\* fails validation.  A later record replaces an earlier one of the same key.
RECURSIVE VersionsDictFrom(_, _, _)
VersionsDictFrom(app_id, listing, acc) ==
    IF listing = << >> THEN << acc >>
    ELSE LET made == ModelVersion_from_dict(app_id, Head(listing)) IN
         IF made = << >> THEN << >>
         ELSE VersionsDictFrom(app_id, Tail(listing),
                  Merge(acc, [k \in {VersionKey(made[1])} |-> made[1]]))

VersionsDict(app_id, listing) == VersionsDictFrom(app_id, listing, EmptyDict)

\* The version records get_model_versions may list: with or without a field
\* naming an app (the Model's own app or another, as the Model is of app a1
\* or a2), and one that lacks version_id.
VersionBase(version_id) ==
    [model_id |-> "m", version_id |-> version_id, version |-> "n1",
     hyperparameters |-> "h", metrics |-> "s",
     created_at |-> 0, modified_at |-> 0]

VersionRecords ==
    { Merge(VersionBase(v), AppKey(form, "a2")) :
        v \in VersionIds, form \in {"absent", "app_id"} }
    \cup { Merge(VersionBase("v1"), AppKey("project_id", "a2")) }
    \cup { [model_id |-> "m", version |-> "n1", hyperparameters |-> "h",
            metrics |-> "s", created_at |-> 0, modified_at |-> 0] }

SeqsUpTo(S, n) == UNION { [1..k -> S] : k \in 0..n }

VersionListings == SeqsUpTo(VersionRecords, MaxVersions)

ModelFrame == UNCHANGED <<mb, lastArg, mdb, ctor, browser, remoteDirs>>

Exists == model.model_id \in DOMAIN remote

\* delete()
Delete ==
    /\ calls' = << DeleteRequest(model) >>
    /\ fetched' = << >>
    /\ \/ /\ ret' = Raised("RemoteError")
          /\ UNCHANGED remote
       \/ /\ Exists
          /\ ret' = Returned("None", None)
          /\ remote' = Remote_delete_model(remote, model.model_id)
    /\ last' = Op("delete", None, ret'.kind = "None")
    /\ UNCHANGED model
    /\ ModelFrame

\* Variant: the local mirror is written before the remote call.
RenameFails_mirrorFirst(name) ==
    /\ calls' = << EditRequest(model, "name", name) >>
    /\ model' = Model_rename(model, name)
    /\ ret' = Raised("RemoteError")
    /\ last' = Op("rename", name, FALSE)
    /\ UNCHANGED remote

\* rename(name): edit_model fails.
RenameFails(name) ==
    /\ calls' = << EditRequest(model, "name", name) >>
    /\ ret' = Raised("RemoteError")
    /\ last' = Op("rename", name, FALSE)
    /\ UNCHANGED <<model, remote>>

\* rename(name): edit_model succeeds.
RenameDone(name) ==
    /\ Exists
    /\ calls' = << EditRequest(model, "name", name) >>
    /\ remote' = Remote_edit_model(remote, model.model_id, "name", name)
    /\ model' = Model_rename(model, name)
    /\ ret' = Returned("self", None)
    /\ last' = [op |-> "rename", arg |-> name, ok |-> TRUE,
                repeat |-> last.op = "rename" /\ last.ok /\ last.arg = name]

Rename ==
    /\ \E name \in Names : RenameFails(name) \/ RenameDone(name)
    /\ fetched' = << >>
    /\ ModelFrame

\* move(directory)
Move ==
    \E directory \in Directories :
        /\ calls' = << EditRequest(model, "directory", directory) >>
        /\ fetched' = << >>
        /\ \/ /\ ret' = Raised("RemoteError")
              /\ UNCHANGED remote
           \/ /\ Exists
              /\ ret' = Returned("self", None)
              /\ remote' = Remote_edit_model(remote, model.model_id,
                                             "directory", directory)
        /\ last' = Op("move", directory, ret'.kind = "self")
        /\ UNCHANGED model
        /\ ModelFrame

\* update_description(description): edit_model fails.
UpdateDescriptionFails(description) ==
    /\ calls' = << EditRequest(model, "description", description) >>
    /\ ret' = Raised("RemoteError")
    /\ last' = Op("update_description", description, FALSE)
    /\ UNCHANGED <<model, remote>>

\* update_description(description): edit_model succeeds.
UpdateDescriptionDone(description) ==
    /\ Exists
    /\ calls' = << EditRequest(model, "description", description) >>
    /\ remote' = Remote_edit_model(remote, model.model_id,
                                   "description", description)
    /\ model' = Model_update_description(model, description)
    /\ ret' = Returned("self", None)
    /\ last' = Op("update_description", description, TRUE)

UpdateDescription ==
    /\ \E description \in Descriptions :
          UpdateDescriptionFails(description) \/ UpdateDescriptionDone(description)
    /\ fetched' = << >>
    /\ ModelFrame

\* versions()
Versions ==
    /\ calls' = << VersionsRequest(model) >>
    /\ \/ /\ fetched' = << >>
          /\ ret' = Raised("RemoteError")
       \/ /\ Exists
          /\ \E listing \in VersionListings :
               LET made == VersionsDict(model.app_id, listing) IN
               /\ fetched' = << listing >>
               /\ ret' = IF made = << >> THEN Raised("ValidationError")
                         ELSE Returned("mapping", made[1])
    /\ last' = Op("versions", None, ret'.kind = "mapping")
    /\ UNCHANGED <<model, remote>>
    /\ ModelFrame

\* describe()
Describe ==
    /\ calls' = << DescribeRequest(model) >>
    /\ \/ /\ fetched' = << >>
          /\ ret' = Raised("RemoteError")
       \/ /\ Exists
          /\ \E form \in KeyForms, rest \in ModelRest :
               LET data == Remote_get_model(remote, model.model_id, form, rest) IN
               /\ fetched' = << data >>
               /\ ret' = Returned("record", data)
    /\ last' = Op("describe", None, ret'.kind = "record")
    /\ UNCHANGED <<model, remote>>
    /\ ModelFrame

\* A Model made by from_dict from the record of a stored model.
InitModel ==
    /\ \E app_id \in AppIds, model_id \in {"m1"}, name \in {"", "X"},
          form \in KeyForms \ {"absent"}, rest \in ModelRest :
         /\ remote = Remote_create_model(EmptyDict, model_id,
                        [app_id |-> app_id, name |-> name])
         /\ model = Model_from_dict(
                        Remote_get_model(remote, model_id, form, rest))[1]
    /\ ctor = [app_id |-> model.app_id, model_id |-> model.model_id]
    /\ mb = ModelBuilder_init(None)
    /\ lastArg = [init |-> None, new |-> NoCall, directory |-> NoCall,
                  model_type |-> NoCall, description |-> NoCall,
                  repeated |-> FALSE]
    /\ mdb = ModelDirectoryBuilder_init(None)
    /\ browser = [app_id |-> None]
    /\ remoteDirs = EmptyDict
    /\ calls = << >>
    /\ fetched = << >>
    /\ last = Op("init", None, TRUE)
    /\ ret = Returned("self", None)

NextModel == Delete \/ Rename \/ Move \/ UpdateDescription \/ Versions \/ Describe

SpecModel == InitModel /\ [][NextModel]_vars

----------------------------------------------------------------------------
(* ModelBrowser *)

ModelBrowser_init(app_id) == [app_id |-> app_id]

SearchRequest(b, query) ==
    [op |-> "search_models_for_project", app_id |-> b.app_id, query |-> query]

\* The dict comprehension of search(): <<the dict>>, or <<>> when a record
\* has no model_id or fails validation.
RECURSIVE ModelsDictFrom(_, _)
ModelsDictFrom(listing, acc) ==
    IF listing = << >> THEN << acc >>
    ELSE IF "model_id" \notin DOMAIN Head(listing) THEN << >>
    ELSE LET made == Model_from_dict(Head(listing)) IN
         IF made = << >> THEN << >>
         ELSE ModelsDictFrom(Tail(listing),
                  Merge(acc, [k \in {Head(listing)["model_id"]} |-> made[1]]))

\* Variant: an empty listing is reported as a failure.
ModelsDict_nonempty(listing) ==
    IF listing = << >> THEN << >> ELSE ModelsDictFrom(listing, EmptyDict)

ModelsDict(listing) == ModelsDictFrom(listing, EmptyDict)

\* The records search_models_for_project may list.
SearchBase(model_id) ==
    [model_id |-> model_id, name |-> "X", model_type |-> "Linear",
     sub_model_type |-> "Lasso", description |-> "",
     created_at |-> 0, modified_at |-> 0]

SearchRecords ==
    { Merge(SearchBase(m), AppKey(form, a)) :
        m \in ModelIds, form \in KeyForms, a \in {"a1"} }

SearchListings == SeqsUpTo(SearchRecords, MaxResults)

\* search(query)
Search ==
    \E query \in Queries :
        /\ calls' = << SearchRequest(browser, query) >>
        /\ \/ /\ fetched' = << >>
              /\ ret' = Raised("RemoteError")
           \/ \E listing \in SearchListings :
                LET made == ModelsDict(listing) IN
                /\ fetched' = << listing >>
                /\ ret' = IF made = << >> THEN Raised("ValidationError")
                          ELSE Returned("mapping", made[1])
        /\ last' = Op("search", query, ret'.kind = "mapping")
        /\ UNCHANGED <<mb, lastArg, mdb, model, ctor, browser, remote, remoteDirs>>

InitSearch ==
    /\ \E app_id \in AppIds : browser = ModelBrowser_init(app_id)
    /\ mb = ModelBuilder_init(None)
    /\ lastArg = [init |-> None, new |-> NoCall, directory |-> NoCall,
                  model_type |-> NoCall, description |-> NoCall,
                  repeated |-> FALSE]
    /\ mdb = ModelDirectoryBuilder_init(None)
    /\ model = NoModel
    /\ ctor = NoModel
    /\ remote = EmptyDict
    /\ remoteDirs = EmptyDict
    /\ calls = << >>
    /\ fetched = << >>
    /\ last = Op("init", None, TRUE)
    /\ ret = Returned("self", None)

NextSearch == Search

SpecSearch == InitSearch /\ [][NextSearch]_vars

----------------------------------------------------------------------------
(* Properties *)

BuilderSetters == {"new", "directory", "model_type", "description"}

Default(arg, default) == IF arg = NoCall THEN default ELSE arg

\* C1: a build() on a builder whose model_type() was never called, whatever
\* other setters were called, raises ValueError and issues no remote call.
C1_NoTypeNoBuild ==
    (last.op = "build" /\ lastArg.model_type = NoCall)
        => (ret.kind = "ValueError" /\ calls = << >>)

C1_Witness ==
    /\ last.op = "build"
    /\ lastArg.model_type = NoCall
    /\ lastArg.new = "X"
    /\ lastArg.directory # NoCall
    /\ lastArg.description # NoCall

\* The Model m holds the fields of the record data.
FromRecord(m, data) ==
    /\ m.app_id = (IF "app_id" \in DOMAIN data THEN data["app_id"]
                   ELSE data["project_id"])
    /\ m.model_id = data["model_id"]
    /\ m.name = data["name"]
    /\ m.model_type = data["model_type"]
    /\ m.sub_model_type = data["sub_model_type"]
    /\ m.description = data["description"]
    /\ m.created_at = data["created_at"]
    /\ m.modified_at = data["modified_at"]

\* C2 as stated: the setters issue no remote call, and every build() with a
\* model type set issues exactly create_model then get_model, the latter with
\* the builder's app_id and the returned model_id; a returned Model holds the
\* fetched record.
C2_AlwaysCreateThenGet ==
    /\ last.op \in BuilderSetters => calls = << >>
    /\ (last.op = "build" /\ mb.model_type # None) =>
          /\ Len(calls) = 2
          /\ calls[1].op = "create_model"
          /\ calls[2].op = "get_model"
          /\ calls[2].app_id = mb.app_id
          /\ Len(fetched) >= 1
          /\ calls[2].model_id = fetched[1]
          /\ ret.kind = "Model" =>
                (Len(fetched) = 2 /\ FromRecord(ret.value, fetched[2]))

\* C2 amended: the setters issue no remote call; every build() with a model
\* type set issues exactly one create_model request first, no further call
\* when that request fails, and when it succeeds exactly one get_model request
\* after it, with the builder's app_id and the returned model_id; a returned
\* Model holds the fetched record.
C2_CreateThenGet ==
    /\ last.op \in BuilderSetters => calls = << >>
    /\ (last.op = "build" /\ mb.model_type # None) =>
          /\ Len(calls) >= 1
          /\ calls[1].op = "create_model"
          /\ fetched = << >> => Len(calls) = 1
          /\ fetched # << >> =>
                /\ Len(calls) = 2
                /\ calls[2].op = "get_model"
                /\ calls[2].app_id = mb.app_id
                /\ calls[2].model_id = fetched[1]
          /\ ret.kind = "Model" =>
                (Len(fetched) = 2 /\ FromRecord(ret.value, fetched[2]))

C2_Witness ==
    /\ last.op = "build"
    /\ ret.kind = "Model"
    /\ Len(calls) = 2
    /\ "project_id" \in DOMAIN fetched[2]

\* C3: the builder's fields are, at every moment, the latest argument of each
\* setter, or the default where the setter was never called, and the app_id it
\* was constructed with; the create_model request of build() carries them.
C3_LatestArguments ==
    /\ mb = [app_id |-> lastArg.init,
             name |-> Default(lastArg.new, ""),
             directory |-> Default(lastArg.directory, None),
             model_type |-> Default(lastArg.model_type, None),
             description |-> Default(lastArg.description, "")]
    /\ (last.op = "build" /\ calls # << >>) =>
          /\ calls[1].app_id = lastArg.init
          /\ calls[1].name = Default(lastArg.new, "")
          /\ calls[1].directory = Default(lastArg.directory, None)
          /\ calls[1].model_type = lastArg.model_type
          /\ calls[1].description = Default(lastArg.description, "")

C3_Witness ==
    /\ last.op = "build"
    /\ calls # << >>
    /\ lastArg.repeated
    /\ lastArg.new = "Y"
    /\ lastArg.directory = NoCall
    /\ lastArg.description = NoCall

\* C4: a successful rename(Y) leaves the local name and the remote name equal
\* to Y, and a successful rename(Y) right after a successful rename(Y) changes
\* neither the Model's fields nor the remote name.
C4_RenameIdempotent ==
    [][ (last'.op = "rename" /\ last'.ok) =>
          /\ model'.name = last'.arg
          /\ remote'[model'.model_id].name = last'.arg
          /\ last'.repeat =>
                /\ model' = model
                /\ remote'[model'.model_id].name = remote[model.model_id].name
      ]_vars

C4_Witness ==
    /\ last.op = "rename"
    /\ last.ok
    /\ last.repeat
    /\ model.name = "Y"

\* C5: the keys of the mapping versions() returns are exactly the version_ids
\* of the listing, and each key maps to the ModelVersion of that version_id.
C5_VersionKeys ==
    (last.op = "versions" /\ ret.kind = "mapping") =>
        /\ DOMAIN ret.value =
              { fetched[1][i]["version_id"] : i \in DOMAIN fetched[1] }
        /\ \A k \in DOMAIN ret.value : ret.value[k].version_id = k

C5_Witness ==
    /\ last.op = "versions"
    /\ ret.kind = "mapping"
    /\ Len(fetched[1]) = 2
    /\ fetched[1][1]["version_id"] = fetched[1][2]["version_id"]
    /\ fetched[1][1] # fetched[1][2]

\* C6: the Model keeps the app_id and model_id it was constructed with, and
\* every remote call it issues carries that pair.
C6_IdentityKept ==
    /\ model.app_id = ctor.app_id
    /\ model.model_id = ctor.model_id
    /\ \A i \in DOMAIN calls :
          calls[i].app_id = ctor.app_id /\ calls[i].model_id = ctor.model_id

C6_Witness ==
    /\ last.op = "update_description"
    /\ ~last.ok
    /\ ~Exists
    /\ model.name = "Y"

\* C7 as stated: search with the empty query, or with a query for which the
\* remote search lists nothing, returns an empty mapping and never fails.
C7_EmptyQueryEmptyMapping ==
    (last.op = "search"
        /\ (last.arg = "" \/ (fetched # << >> /\ Len(fetched[1]) = 0)))
    => (ret.kind = "mapping" /\ DOMAIN ret.value = {})

\* C7 amended: search with any query, the empty one included, for which the
\* remote search succeeds and lists nothing returns an empty mapping; a
\* failure of the remote search is raised to the caller.
C7_NoRecordsEmptyMapping ==
    last.op = "search" =>
        /\ (fetched # << >> /\ Len(fetched[1]) = 0)
              => (ret.kind = "mapping" /\ DOMAIN ret.value = {})
        /\ fetched = << >> => ret.kind = "RemoteError"

C7_Witness ==
    /\ last.op = "search"
    /\ last.arg = ""
    /\ fetched # << >>
    /\ Len(fetched[1]) = 0
    /\ ret.kind = "mapping"

\* C8: a rename() or update_description() whose edit_model call fails raises
\* the failure and leaves every field of the Model as it was.
C8_FailedEditKeepsFields ==
    [][ (last'.op \in {"rename", "update_description"} /\ ~last'.ok) =>
          (ret'.kind = "RemoteError" /\ model' = model)
      ]_vars

C8_Witness ==
    /\ last.op = "rename"
    /\ ~last.ok
    /\ last.arg # model.name
    /\ Exists

\* C9: when the create request of ModelBuilder.build() or of
\* ModelDirectoryBuilder.build() succeeded and the fetch failed, the failure is
\* raised, nothing is returned, the two requests are the only remote calls,
\* and the created entity is in the remote store.
C9_NoRollback ==
    /\ (last.op = "build" /\ Len(fetched) = 1) =>
          /\ ret = Raised("RemoteError")
          /\ Len(calls) = 2
          /\ calls[1].op = "create_model"
          /\ calls[2].op = "get_model"
          /\ fetched[1] \in DOMAIN remote
    /\ (last.op = "dir_build" /\ Len(fetched) = 1) =>
          /\ ret = Raised("RemoteError")
          /\ Len(calls) = 2
          /\ calls[1].op = "create_model_directory"
          /\ calls[2].op = "get_model_directory"
          /\ fetched[1] \in DOMAIN remoteDirs

C9_Witness ==
    /\ last.op = "build"
    /\ Len(fetched) = 1
    /\ ret.kind = "RemoteError"
    /\ DOMAIN remoteDirs # {}

\* C10: every ModelVersion of the mapping versions() returns has the app_id of
\* the Model it was listed from, whatever fields the version record carries.
C10_VersionAppId ==
    (last.op = "versions" /\ ret.kind = "mapping") =>
        \A k \in DOMAIN ret.value : ret.value[k].app_id = model.app_id

====
